---------------------------- MODULE Spec2Model ----------------------------
(***************************************************************************)
(* Model of the highlight detection and clip synthesis engine of the clip  *)
(* repository (highlight_detector.py and the detectors it calls).          *)
(*                                                                         *)
(* Units.  Anchor and clip times are whole seconds.  Gameplay-period       *)
(* bounds are kept in 1/80 s (PeriodScale) so that the HUD sample times    *)
(* i*duration/16 and the heuristic bounds 0.05*duration are exact.         *)
(* Confidences and excitement scores are in hundredths (0.8 is 80); a      *)
(* highlight's score is in millionths (ScoreUnit), where the product       *)
(* base * confidence * method_bonus * audio_bonus is exact.                *)
(***************************************************************************)
EXTENDS Integers, Sequences, FiniteSets, TLC

VARIABLES
    pc,                \* position inside detect_smart_highlights
    video_duration,    \* true length of the media file, seconds
    probe_ok,          \* whether ffprobe can read the duration of the file
    tesseract,         \* TESSERACT_AVAILABLE
    gameplay_periods,  \* local of detect_smart_highlights
    detected_kills,    \* kill_events of detect_smart_highlights, before the gameplay filter
    ocr_failed,        \* TRUE when the recognition engine raised inside detect_kill_events
    detected_audio,    \* audio_moments of detect_smart_highlights, before the gameplay filter
    audio_failed,      \* TRUE when the audio analysis raised inside detect_lol_highlights
    filtered_kills,    \* local of detect_smart_highlights
    filtered_audio,    \* local of detect_smart_highlights
    correlated,        \* correlated_highlights
    scored,            \* scored_highlights
    result,            \* the list detect_smart_highlights returned
    path,              \* "none", "main" or "fallback": which return produced result
    raised_at,         \* the stage whose exception the handler caught, or "none"
    surfaced,          \* TRUE when an exception escaped to the caller
    gen,               \* a call of _generate_clips: arguments and what it returned
    fb,                \* a call of the fallback generators: the file and what they returned
    comb,              \* a call of _combine_detections: arguments and what it returned
    cor,               \* a call of _correlate_events: arguments and what it returned
    per,               \* a call of analyze_gameplay_periods: the frames and what it returned
    ob,                \* a call of _optimize_clip_boundaries: arguments and what it returned
    ro,                \* a call of _remove_overlaps: argument and what it returned
    fx,                \* a call of extract_frames_for_ocr: the loop's locals
    syn,               \* two calls of detect_kill_events_fallback for the same file
    aud                \* two runs of detect_lol_highlights and the temp directory

pipeVars == <<pc, video_duration, probe_ok, tesseract, gameplay_periods,
              detected_kills, ocr_failed, detected_audio, audio_failed,
              filtered_kills, filtered_audio, correlated, scored, result,
              path, raised_at, surfaced>>

\* the calls studied one at a time besides gen, fb, comb and cor
callVars == <<per, ob, ro, fx, syn, aud>>

vars == <<pipeVars, gen, fb, comb, cor, callVars>>

-----------------------------------------------------------------------------
(* Bounds of the model *)

\* at most this many frames with a recognized keyword in one run
MaxKills == 2
\* at most this many raw audio moments in one run
MaxAudio == 2
\* at most this many ranked candidates handed to one call of _generate_clips
MaxCandidates == 4
\* the largest max_clips argument tried
MaxClipsArg == 2
\* the fallback generators are tried on every whole minute up to this many
MaxMinutes == 65
\* at most this many raw moments handed to one call of _combine_detections
MaxMoments == 3
\* at most this many audio events handed to one call of _correlate_events
MaxCorrelatedAudio == 3

-----------------------------------------------------------------------------
(* Scales *)

PeriodScale == 16 * 5
ScoreUnit == 1000 * 1000

Min(a, b) == IF a <= b THEN a ELSE b
Max(a, b) == IF a >= b THEN a ELSE b
Abs(a) == IF a >= 0 THEN a ELSE 0 - a

\* list.sort(key=..., reverse=True): stable, descending by Key
SortDescBy(Key(_), s) ==
    LET f[i \in 0..Len(s)] ==
            IF i = 0 THEN <<>>
            ELSE LET acc == f[i - 1]
                     x == s[i]
                     p == Cardinality({j \in 1..Len(acc) : Key(acc[j]) >= Key(x)})
                 IN  SubSeq(acc, 1, p) \o <<x>> \o SubSeq(acc, p + 1, Len(acc))
    IN  f[Len(s)]

\* [x for x in s if Keep(x)]
FilterSeq(Keep(_), s) ==
    LET f[i \in 0..Len(s)] ==
            IF i = 0 THEN <<>>
            ELSE IF Keep(s[i]) THEN Append(f[i - 1], s[i]) ELSE f[i - 1]
    IN  f[Len(s)]

-----------------------------------------------------------------------------
(* hud_detector.py *)

SampleCount == 15
MinPeriodSpan == 60
KeyElements == {"minimap", "abilities", "health_bar"}

\* extract_sample_frames: sample i is taken at i * duration / (sample_count + 1);
\* outcome[i].ok is FALSE when the sample is lost (timeout, error, short read), else
\* outcome[i] holds what detect_hud_elements finds in the frame.
\* A failed duration probe returns no frames.
ExtractSampleFrames(ok, duration, outcome) ==
    IF ~ok THEN <<>>
    ELSE LET all == [i \in 1..SampleCount |->
                        [timestamp |-> i * duration * (PeriodScale \div (SampleCount + 1)),
                         hud |-> outcome[i]]]
         IN  FilterSeq(LAMBDA f : f.hud.ok, all)

InGameScore(hud) == Cardinality({e \in KeyElements : hud[e]})

\* variant of KeepPeriod: a span of exactly one minute is kept as well
KeepPeriodFromMinute(p) == p.end_time - p.start_time >= MinPeriodSpan * PeriodScale

\* the test that closes a period: end_time - start_time > 60
KeepPeriod(p) == p.end_time - p.start_time > MinPeriodSpan * PeriodScale

\* analyze_gameplay_periods: the loop over the frames and the closing of the last period.
\* Period confidence is in_game_score (thirds).
RECURSIVE AnalyzeLoop(_, _, _, _)
AnalyzeLoop(frames, i, periods, cur) ==
    IF i > Len(frames)
    THEN IF cur # <<>> /\ KeepPeriod(cur[1]) THEN Append(periods, cur[1]) ELSE periods
    ELSE LET ts == frames[i].timestamp
             sc == InGameScore(frames[i].hud)
             is_in_game == sc >= 2
         IN  IF is_in_game /\ cur = <<>>
             THEN AnalyzeLoop(frames, i + 1, periods,
                      <<[start_time |-> ts, end_time |-> ts, confidence |-> sc * 5,
                         method |-> "hud"]>>)
             ELSE IF is_in_game
             THEN AnalyzeLoop(frames, i + 1, periods,
                      <<[cur[1] EXCEPT !.end_time = ts,
                                       !.confidence = Max(cur[1].confidence, sc * 5)]>>)
             ELSE IF cur # <<>>
             THEN AnalyzeLoop(frames, i + 1,
                      IF KeepPeriod(cur[1]) THEN Append(periods, cur[1]) ELSE periods, <<>>)
             ELSE AnalyzeLoop(frames, i + 1, periods, cur)

AnalyzeGameplayPeriods(frames) == AnalyzeLoop(frames, 1, <<>>, <<>>)

\* variant of IsTimestampInGame: only the start of the period is compared
InGameFromStart(timestamp, periods) ==
    \E i \in 1..Len(periods) : periods[i].start_time <= timestamp * PeriodScale

\* is_timestamp_in_game: timestamp in seconds, periods in 1/PeriodScale s
IsTimestampInGame(timestamp, periods) ==
    \E i \in 1..Len(periods) :
        /\ periods[i].start_time <= timestamp * PeriodScale
        /\ timestamp * PeriodScale <= periods[i].end_time

\* get_gameplay_periods_fallback: [0.05 d, d - 0.05 d], confidence 0.6 (9/15);
\* a failed duration probe is caught and yields no period.
GetGameplayPeriodsFallback(ok, duration) ==
    IF ~ok THEN <<>>
    ELSE <<[start_time |-> duration * (PeriodScale \div 20),
            end_time |-> duration * PeriodScale - duration * (PeriodScale \div 20),
            confidence |-> 9, method |-> "fallback"]>>

-----------------------------------------------------------------------------
(* ocr_analyzer.py *)

OcrConfidence == 80
OcrSpanLimit == 1200

\* keyword.replace(' ', '_') on the entries of kill_keywords
KeywordEventType ==
    ("killed" :> "killed") @@ ("slain" :> "slain") @@ ("executed" :> "executed") @@
    ("double kill" :> "double_kill") @@ ("triple kill" :> "triple_kill") @@
    ("quadra kill" :> "quadra_kill") @@ ("penta kill" :> "penta_kill") @@
    ("killing spree" :> "killing_spree") @@ ("rampage" :> "rampage") @@
    ("unstoppable" :> "unstoppable") @@ ("dominating" :> "dominating") @@
    ("godlike" :> "godlike") @@ ("legendary" :> "legendary") @@
    ("shutdown" :> "shutdown") @@ ("first blood" :> "first_blood")

\* detect_kill_events_ocr: hits is the list of (sample time, first keyword matched)
\* of the frames in which a keyword was read, in sampling order.  No frame is
\* sampled when the duration probe fails, at or after the duration, or from 1200 s on.
DetectKillEventsOcr(ok, duration, hits) ==
    IF ~ok THEN <<>>
    ELSE LET seen == FilterSeq(LAMBDA h : h.time < duration /\ h.time < OcrSpanLimit, hits)
         IN  [i \in 1..Len(seen) |->
                 [timestamp |-> seen[i].time,
                  event_type |-> KeywordEventType[seen[i].keyword],
                  detection_method |-> "ocr_kill_feed",
                  confidence |-> OcrConfidence]]

\* detect_kill_events_fallback: draw[k] is the k-th value np.random.randint returns,
\* as an offset from the low end of its range (0 .. high - low - 1).
DetectKillEventsFallback(ok, video_len, draw) ==
    LET duration == IF ok THEN video_len ELSE 3600
        first == IF duration > 300
                 THEN <<[timestamp |-> 180 + draw[1], event_type |-> "first_blood",
                         detection_method |-> "pattern_based", confidence |-> 60]>>
                 ELSE <<>>
        upper == Min(6, duration \div 300)
        mid == [k \in 1..Max(0, upper - 2) |->
                   [timestamp |-> (k + 1) * 300 + (draw[1 + k] - 60),
                    event_type |-> "team_fight",
                    detection_method |-> "pattern_based", confidence |-> 50]]
        late == IF duration > 1800
                THEN <<[timestamp |-> duration - 600 + (draw[6] - 120),
                        event_type |-> "baron_fight",
                        detection_method |-> "pattern_based", confidence |-> 60]>>
                ELSE <<>>
    IN  first \o mid \o late

\* detect_kill_events: the engine when available, else the synthetic generator; an
\* exception of the engine path is caught and answered by the synthetic generator.
DetectKillEvents(avail, engine_raises, ok, duration, hits, draw) ==
    IF avail /\ ~engine_raises
    THEN DetectKillEventsOcr(ok, duration, hits)
    ELSE DetectKillEventsFallback(ok, duration, draw)

-----------------------------------------------------------------------------
(* simple_audio_analyzer.py *)

\* _get_video_duration
GetVideoDuration(ok, duration) == IF ok THEN duration ELSE 1800

\* _merge_and_rank_simple
RECURSIVE MergeLoop(_, _, _, _, _)
MergeLoop(moments, i, final_clips, used_times, duration) ==
    IF i > Len(moments) THEN final_clips
    ELSE LET moment == moments[i]
             too_close == \E u \in 1..Len(used_times) :
                              Abs(moment.start_time - used_times[u]) < 20
             end == Min(moment.end_time, duration)
             clipped == [moment EXCEPT !.end_time = end]
         IN  IF ~too_close /\ Len(final_clips) < 15 /\ end - moment.start_time >= 2
             THEN MergeLoop(moments, i + 1, Append(final_clips, clipped),
                            Append(used_times, moment.start_time), duration)
             ELSE MergeLoop(moments, i + 1, final_clips, used_times, duration)

MergeAndRankSimple(all_moments, duration) ==
    MergeLoop(SortDescBy(LAMBDA m : m.excitement_score, all_moments), 1, <<>>, <<>>,
              duration)

\* _generate_fallback_clips.  interval = max(240, duration / 12) is kept times 12;
\* start times are whole seconds for durations up to 2880 s and for multiples of 12.
RECURSIVE FallbackClipsLoop(_, _, _, _, _)
FallbackClipsLoop(duration, offsets, o, i, clips) ==
    LET interval12 == Max(240 * 12, duration)
        count == (duration * 12) \div interval12
        start12 == offsets[o] * 12 + i * interval12
    IN  IF o > Len(offsets) \/ Len(clips) >= 8 THEN clips
        ELSE IF i >= count THEN FallbackClipsLoop(duration, offsets, o + 1, 0, clips)
        ELSE IF start12 + 12 * 12 < duration * 12
        THEN FallbackClipsLoop(duration, offsets, o, i + 1,
                 Append(clips, [start_time |-> start12 \div 12,
                                end_time |-> start12 \div 12 + 10,
                                duration |-> 10,
                                type |-> "periodic",
                                excitement_score |-> 200 + i * 10]))
        ELSE FallbackClipsLoop(duration, offsets, o, i + 1, clips)

GenerateFallbackClips(ok, video_len) ==
    LET clips == FallbackClipsLoop(GetVideoDuration(ok, video_len), <<60, 120, 180>>,
                                   1, 0, <<>>)
    IN  SubSeq(clips, 1, Min(10, Len(clips)))

\* detect_lol_highlights_fast: three 45 s clips, the first after one minute
DetectLolHighlightsFast(max_duration) ==
    LET interval == Min(300, max_duration \div 3)
        all == [k \in 1..3 |->
                   [start_time |-> (k - 1) * interval + 60,
                    end_time |-> (k - 1) * interval + 60 + 45,
                    duration |-> 45,
                    excitement_score |-> 80 - (k - 1) * 10,
                    detection_reason |-> <<"Interval", k>>,
                    type |-> "timed"]]
    IN  FilterSeq(LAMBDA c : c.end_time <= max_duration, all)

\* detect_lol_highlights: raw is volume_spikes + density_moments + action_moments;
\* extract_ok is FALSE when extracting or reading the audio raises.
DetectLolHighlights(ok, video_len, extract_ok, raw) ==
    IF ~extract_ok THEN GenerateFallbackClips(ok, video_len)
    ELSE LET final_clips == MergeAndRankSimple(raw, GetVideoDuration(ok, video_len))
         IN  IF Len(final_clips) = 0 THEN GenerateFallbackClips(ok, video_len)
             ELSE final_clips

-----------------------------------------------------------------------------
(* highlight_detector.py *)

CorrelationWindow == 8
MinHighlightGap == 30
DefaultMaxClips == 8

\* self.event_scores, with the default of event_scores.get(event_type, 1)
EventScore(event_type) ==
    CASE event_type = "penta_kill" -> 10
      [] event_type = "quadra_kill" -> 8
      [] event_type = "triple_kill" -> 6
      [] event_type = "double_kill" -> 4
      [] event_type = "first_blood" -> 5
      [] event_type = "shutdown" -> 4
      [] event_type = "baron" -> 6
      [] event_type = "dragon" -> 5
      [] event_type = "turret" -> 3
      [] event_type = "teamfight" -> 7
      [] event_type = "single_kill" -> 2
      [] event_type = "audio_spike" -> 1
      [] OTHER -> 1

\* sub in event_type, for the substrings _generate_clips tests and the event types
\* the detectors emit ('teamfight' is not a substring of 'team_fight')
Contains(event_type, sub) ==
    CASE sub = "penta" -> event_type = "penta_kill"
      [] sub = "quadra" -> event_type = "quadra_kill"
      [] sub = "teamfight" -> event_type = "teamfight"
      [] sub = "baron" -> event_type \in {"baron", "baron_fight"}
      [] sub = "triple" -> event_type = "triple_kill"
      [] sub = "double" -> event_type = "double_kill"
      [] OTHER -> FALSE

\* variant of BoostedConfidence: the boost for supporting audio is left out
UnboostedConfidence(confidence) == confidence

\* the confidence of a kill highlight that has supporting audio
BoostedConfidence(confidence) == Min(100, confidence + 20)

\* _correlate_events, first loop: one highlight per kill event
KillHighlight(kill_event, audio_moments) ==
    LET kill_time == kill_event.timestamp
        nearby_audio == FilterSeq(
            LAMBDA a : Abs(a.start_time - kill_time) <= CorrelationWindow, audio_moments)
        best == CHOOSE b \in {nearby_audio[j].excitement_score : j \in 1..Len(nearby_audio)} :
                    \A j \in 1..Len(nearby_audio) : nearby_audio[j].excitement_score <= b
    IN  [timestamp |-> kill_time,
         primary_event |-> kill_event,
         supporting_audio |-> nearby_audio,
         event_type |-> kill_event.event_type,
         confidence |-> IF nearby_audio # <<>>
                        THEN BoostedConfidence(kill_event.confidence)
                        ELSE kill_event.confidence,
         detection_methods |-> IF nearby_audio # <<>> THEN <<"ocr", "hud", "audio">>
                               ELSE <<"ocr", "hud">>,
         audio_boost |-> IF nearby_audio # <<>> THEN best ELSE 0,
         in_game |-> TRUE]

\* variant of AlreadyUsed: only the text-anchored highlights are looked at
UsedByTextAnchor(acc, audio_time) ==
    \E h \in 1..Len(acc) :
        /\ acc[h].event_type # "audio_highlight"
        /\ Abs(acc[h].timestamp - audio_time) <= CorrelationWindow

\* already_used: some highlight already in the list is within the window
AlreadyUsed(acc, audio_time) ==
    \E h \in 1..Len(acc) : Abs(acc[h].timestamp - audio_time) <= CorrelationWindow

\* _correlate_events, second loop: the audio events not within the window of a
\* highlight already in the list
RECURSIVE AudioLoop(_, _, _)
AudioLoop(audio_moments, i, acc) ==
    IF i > Len(audio_moments) THEN acc
    ELSE LET audio_event == audio_moments[i]
             audio_time == audio_event.start_time
             already_used == AlreadyUsed(acc, audio_time)
         IN  IF ~already_used /\ audio_event.excitement_score > 70
             THEN AudioLoop(audio_moments, i + 1,
                      Append(acc, [timestamp |-> audio_time,
                                   primary_event |-> audio_event,
                                   supporting_audio |-> <<>>,
                                   event_type |-> "audio_highlight",
                                   confidence |-> audio_event.excitement_score,
                                   detection_methods |-> <<"audio", "hud">>,
                                   audio_boost |-> 0,
                                   in_game |-> TRUE]))
             ELSE AudioLoop(audio_moments, i + 1, acc)

CorrelateEvents(kill_events, audio_moments) ==
    AudioLoop(audio_moments, 1,
              [k \in 1..Len(kill_events) |-> KillHighlight(kill_events[k], audio_moments)])

\* variant of MethodBonus: the hud entry of the methods list is not counted
MethodBonusWithoutHud(highlight) ==
    IF Len(highlight.detection_methods) - 1 > 2 THEN 14
    ELSE IF Len(highlight.detection_methods) - 1 > 1 THEN 12
    ELSE 10

\* _score_and_rank: method_bonus in tenths, audio_bonus in thousandths
MethodBonus(highlight) ==
    IF Len(highlight.detection_methods) > 2 THEN 14
    ELSE IF Len(highlight.detection_methods) > 1 THEN 12
    ELSE 10

HighlightScore(highlight) ==
    Min(EventScore(highlight.event_type) * highlight.confidence * MethodBonus(highlight)
            * (1000 + highlight.audio_boost * 3),
        10 * ScoreUnit)

ScoreAndRank(highlights) ==
    SortDescBy(LAMBDA h : h.score,
               [i \in 1..Len(highlights) |->
                   [score |-> HighlightScore(highlights[i])] @@ highlights[i]])

\* _generate_clips: (duration, pre_buffer) of an event type
ClipDuration(event_type) ==
    IF Contains(event_type, "penta") \/ Contains(event_type, "quadra") THEN <<60, 15>>
    ELSE IF Contains(event_type, "teamfight") \/ Contains(event_type, "baron") THEN <<45, 10>>
    ELSE IF Contains(event_type, "triple") \/ Contains(event_type, "double") THEN <<40, 8>>
    ELSE <<35, 6>>

MakeClip(highlight) ==
    LET dp == ClipDuration(highlight.event_type)
        start_time == Max(0, highlight.timestamp - dp[2])
    IN  [start_time |-> start_time,
         end_time |-> start_time + dp[1],
         duration |-> dp[1],
         excitement_score |-> highlight.score,
         detection_reason |-> <<"Smart", highlight.event_type, highlight.detection_methods>>,
         type |-> "smart_highlight",
         event_type |-> highlight.event_type,
         confidence |-> highlight.confidence,
         methods_used |-> highlight.detection_methods,
         in_game_verified |-> TRUE]

\* variant of TooClose: the gap is measured against the correlation window
TooCloseByWindow(timestamp, last_clip_time) ==
    timestamp - last_clip_time < CorrelationWindow

\* variant of TooClose: the distance is taken on either side of the last anchor
TooCloseEitherSide(timestamp, last_clip_time) ==
    Abs(timestamp - last_clip_time) < MinHighlightGap

\* variant of TooClose: only an anchor at or after the last one can be too close
TooCloseAfterOnly(timestamp, last_clip_time) ==
    0 <= timestamp - last_clip_time /\ timestamp - last_clip_time < MinHighlightGap

\* the gap test of _generate_clips
TooClose(timestamp, last_clip_time) == timestamp - last_clip_time < MinHighlightGap

\* variant of TargetReached: the loop stops one clip late
TargetExceeded(clips, max_clips) == Len(clips) > max_clips

\* the test that ends the loop of _generate_clips
TargetReached(clips, max_clips) == Len(clips) >= max_clips

\* _generate_clips: the loop over highlights[:max_clips * 2]; examined counts the
\* candidates the loop has looked at when it ends, anchors are the accepted timestamps
RECURSIVE ClipsLoop(_, _, _, _, _, _)
ClipsLoop(highlights, max_clips, i, clips, anchors, last_clip_time) ==
    IF i > Len(highlights) \/ i > max_clips * 2
    THEN [clips |-> clips, anchors |-> anchors, examined |-> i - 1]
    ELSE IF TooClose(highlights[i].timestamp, last_clip_time)
    THEN ClipsLoop(highlights, max_clips, i + 1, clips, anchors, last_clip_time)
    ELSE IF TargetReached(Append(clips, MakeClip(highlights[i])), max_clips)
    THEN [clips |-> Append(clips, MakeClip(highlights[i])),
          anchors |-> Append(anchors, highlights[i].timestamp),
          examined |-> i]
    ELSE ClipsLoop(highlights, max_clips, i + 1, Append(clips, MakeClip(highlights[i])),
                   Append(anchors, highlights[i].timestamp), highlights[i].timestamp)

GenerateClipsRun(highlights, max_clips) ==
    ClipsLoop(highlights, max_clips, 1, <<>>, <<>>, -999)

GenerateClips(highlights, max_clips) == GenerateClipsRun(highlights, max_clips).clips

\* _pattern_based_fallback: a failed duration probe is answered by 3600 s
PatternIntervals ==
    <<[timestamp |-> 300, event_type |-> "early_game", score |-> 60],
      [timestamp |-> 600, event_type |-> "first_objective", score |-> 70],
      [timestamp |-> 900, event_type |-> "mid_game", score |-> 80],
      [timestamp |-> 1200, event_type |-> "team_fights", score |-> 90],
      [timestamp |-> 1500, event_type |-> "late_game", score |-> 80]>>

PatternDuration(ok, video_len) == IF ok THEN video_len ELSE 3600

PatternBasedFallback(ok, video_len) ==
    LET duration == PatternDuration(ok, video_len)
        start_offset == 120
        fits == FilterSeq(LAMBDA iv : iv.timestamp > start_offset
                                      /\ iv.timestamp + 45 < duration, PatternIntervals)
        clips == [i \in 1..Len(fits) |->
                     [start_time |-> fits[i].timestamp - 10,
                      end_time |-> fits[i].timestamp + 35,
                      duration |-> 45,
                      excitement_score |-> fits[i].score * (ScoreUnit \div 100),
                      detection_reason |-> <<"Pattern", fits[i].event_type>>,
                      type |-> "pattern_fallback",
                      event_type |-> fits[i].event_type,
                      confidence |-> 60,
                      methods_used |-> <<"pattern">>,
                      in_game_verified |-> FALSE]]
    IN  SubSeq(clips, 1, Min(5, Len(clips)))

-----------------------------------------------------------------------------
(* What the environment can hand to one run of detect_smart_highlights *)

Durations == {200, 1800}
KillTimes == {14, 50, 100, 190}
Keywords == {"penta kill", "double kill", "killed"}
AudioTimes == {60, 105, 130, 190}
AudioScores == {62, 80, 120}

\* strictly increasing sequences over Times of length at most n, with a tag from Tags
RECURSIVE IncreasingSeqs(_, _, _)
IncreasingSeqs(Times, Tags, n) ==
    IF n = 0 THEN {<<>>}
    ELSE LET shorter == IncreasingSeqs(Times, Tags, n - 1)
             longer == {Append(q, [time |-> t, tag |-> g]) :
                           q \in {r \in shorter : Len(r) = n - 1},
                           t \in Times, g \in Tags}
         IN  shorter \cup
             {q \in longer : Len(q) = 1 \/ q[Len(q) - 1].time < q[Len(q)].time}

\* frames in which the engine read a keyword: sampling order, one keyword per frame
OcrHits ==
    {[i \in 1..Len(q) |-> [time |-> q[i].time, keyword |-> q[i].tag]] :
        q \in IncreasingSeqs(KillTimes, Keywords, MaxKills)}

\* volume spikes of the audio track, in time order (chunks start before the end)
RawAudio(duration) ==
    {[i \in 1..Len(q) |-> [start_time |-> q[i].time, end_time |-> q[i].time + 3,
                           type |-> "volume_spike", excitement_score |-> q[i].tag]] :
        q \in IncreasingSeqs({t \in AudioTimes : t < duration}, AudioScores, MaxAudio)}

\* np.random.randint draws of the synthetic generator: all lowest, all highest, mixed
RandomDraws == {<<0, 0, 0, 0, 0, 0>>, <<119, 119, 119, 119, 119, 239>>,
                <<60, 0, 119, 60, 0, 120>>}

Hud(n) == [ok |-> TRUE, minimap |-> n >= 1, abilities |-> n >= 2, health_bar |-> n >= 3]
LostSample == [ok |-> FALSE, minimap |-> FALSE, abilities |-> FALSE, health_bar |-> FALSE]

\* HUD sample outcomes: a run of in-game samples a..b showing n key elements
HudRun(a, b, n) == [i \in 1..SampleCount |-> IF a <= i /\ i <= b THEN Hud(n) ELSE Hud(1)]
HudOutcomes ==
    {HudRun(1, 0, 3), HudRun(1, SampleCount, 3), HudRun(1, 8, 2), HudRun(3, 5, 3),
     [i \in 1..SampleCount |-> LostSample]}

-----------------------------------------------------------------------------
(* detect_smart_highlights, one action per step of the try block *)

NoLocals ==
    /\ gameplay_periods' = <<>>
    /\ detected_kills' = <<>>
    /\ detected_audio' = <<>>
    /\ filtered_kills' = <<>>
    /\ filtered_audio' = <<>>
    /\ correlated' = <<>>
    /\ scored' = <<>>

Idle == [pc |-> "idle"]

CallsIdle ==
    /\ per = Idle /\ ob = Idle /\ ro = Idle /\ fx = Idle /\ syn = Idle /\ aud = Idle

Init ==
    /\ gen = Idle /\ fb = Idle /\ comb = Idle /\ cor = Idle /\ CallsIdle
    /\ pc = "hud"
    /\ video_duration \in Durations
    /\ probe_ok \in BOOLEAN
    /\ tesseract \in BOOLEAN
    /\ gameplay_periods = <<>>
    /\ detected_kills = <<>> /\ ocr_failed = FALSE
    /\ detected_audio = <<>> /\ audio_failed = FALSE
    /\ filtered_kills = <<>>
    /\ filtered_audio = <<>>
    /\ correlated = <<>>
    /\ scored = <<>>
    /\ result = <<>>
    /\ path = "none"
    /\ raised_at = "none"
    /\ surfaced = FALSE

\* Step 1: gameplay periods, with the heuristic period when none is detected
StepGameplayPeriods ==
    /\ pc = "hud"
    /\ \E outcome \in HudOutcomes :
          LET periods == AnalyzeGameplayPeriods(
                             ExtractSampleFrames(probe_ok, video_duration, outcome))
          IN  gameplay_periods' =
                  IF periods = <<>>
                  THEN GetGameplayPeriodsFallback(probe_ok, video_duration)
                  ELSE periods
    /\ pc' = "kills"
    /\ UNCHANGED <<callVars, gen, fb, comb, cor, detected_kills, ocr_failed, detected_audio, audio_failed,
                   video_duration, probe_ok, tesseract, filtered_kills, filtered_audio,
                   correlated, scored, result, path, raised_at, surfaced>>

\* Step 2: kill feed events, kept only inside gameplay periods
StepKillEvents ==
    /\ pc = "kills"
    /\ \E hits \in OcrHits, draw \in RandomDraws, engine_raises \in BOOLEAN :
          /\ (tesseract /\ ~engine_raises) => draw = <<0, 0, 0, 0, 0, 0>>
          /\ ~(tesseract /\ ~engine_raises) => hits = <<>>
          /\ ~tesseract => ~engine_raises
          /\ detected_kills' = DetectKillEvents(tesseract, engine_raises, probe_ok,
                                              video_duration, hits, draw)
          /\ ocr_failed' = engine_raises
    /\ filtered_kills' =
          FilterSeq(LAMBDA e : IsTimestampInGame(e.timestamp, gameplay_periods),
                    detected_kills')
    /\ pc' = "audio"
    /\ UNCHANGED <<callVars, gen, fb, comb, cor, detected_audio, audio_failed,
                   video_duration, probe_ok, tesseract, gameplay_periods, filtered_audio,
                   correlated, scored, result, path, raised_at, surfaced>>

\* Step 3: audio moments, kept only inside gameplay periods
StepAudioMoments ==
    /\ pc = "audio"
    /\ \E extract_ok \in BOOLEAN, raw \in RawAudio(video_duration) :
          /\ ~extract_ok => raw = <<>>
          /\ detected_audio' = DetectLolHighlights(probe_ok, video_duration, extract_ok, raw)
          /\ audio_failed' = ~extract_ok
    /\ filtered_audio' =
          FilterSeq(LAMBDA m : IsTimestampInGame(m.start_time, gameplay_periods),
                    detected_audio')
    /\ pc' = "correlate"
    /\ UNCHANGED <<callVars, gen, fb, comb, cor, detected_kills, ocr_failed,
                   video_duration, probe_ok, tesseract, gameplay_periods, filtered_kills,
                   correlated, scored, result, path, raised_at, surfaced>>

\* Step 4: correlate
StepCorrelate ==
    /\ pc = "correlate"
    /\ correlated' = CorrelateEvents(filtered_kills, filtered_audio)
    /\ pc' = "score"
    /\ UNCHANGED <<callVars, gen, fb, comb, cor, detected_kills, ocr_failed, detected_audio, audio_failed,
                   video_duration, probe_ok, tesseract, gameplay_periods, filtered_kills,
                   filtered_audio, scored, result, path, raised_at, surfaced>>

\* Step 5: score and rank
StepScoreAndRank ==
    /\ pc = "score"
    /\ scored' = ScoreAndRank(correlated)
    /\ pc' = "clips"
    /\ UNCHANGED <<callVars, gen, fb, comb, cor, detected_kills, ocr_failed, detected_audio, audio_failed,
                   video_duration, probe_ok, tesseract, gameplay_periods, filtered_kills,
                   filtered_audio, correlated, result, path, raised_at, surfaced>>

\* Step 6: generate the final clips and return them
StepGenerateClips ==
    /\ pc = "clips"
    /\ result' = GenerateClips(scored, DefaultMaxClips)
    /\ path' = "main"
    /\ pc' = "done"
    /\ UNCHANGED <<callVars, gen, fb, comb, cor, detected_kills, ocr_failed, detected_audio, audio_failed,
                   video_duration, probe_ok, tesseract, gameplay_periods, filtered_kills,
                   filtered_audio, correlated, scored, raised_at, surfaced>>

\* any step of the try block raises: control goes to the except clause
Raise ==
    /\ pc \in {"hud", "kills", "audio", "correlate", "score", "clips"}
    /\ raised_at' = pc
    /\ pc' = "except"
    /\ NoLocals
    /\ UNCHANGED <<callVars, gen, fb, comb, cor, ocr_failed, audio_failed,
                   video_duration, probe_ok, tesseract, result, path, surfaced>>

\* variant of HandlerFallback: the duration probe of the fallback is not guarded,
\* so its failure leaves the handler
HandlerUnguardedProbe(ok, duration) ==
    IF ok THEN [clips |-> PatternBasedFallback(ok, duration), raises |-> FALSE]
    ELSE [clips |-> <<>>, raises |-> TRUE]

\* the except clause: return self._pattern_based_fallback(video_path)
HandlerFallback(ok, duration) ==
    [clips |-> PatternBasedFallback(ok, duration), raises |-> FALSE]

StepExcept ==
    /\ pc = "except"
    /\ LET r == HandlerFallback(probe_ok, video_duration)
       IN  /\ result' = r.clips
           /\ surfaced' = r.raises
    /\ path' = "fallback"
    /\ pc' = "done"
    /\ UNCHANGED <<callVars, gen, fb, comb, cor, detected_kills, ocr_failed, detected_audio, audio_failed,
                   video_duration, probe_ok, tesseract, gameplay_periods, filtered_kills,
                   filtered_audio, correlated, scored, raised_at>>

Next ==
    \/ StepGameplayPeriods
    \/ StepKillEvents
    \/ StepAudioMoments
    \/ StepCorrelate
    \/ StepScoreAndRank
    \/ StepGenerateClips
    \/ Raise
    \/ StepExcept

Spec == Init /\ [][Next]_vars

-----------------------------------------------------------------------------
(* audio_analyzer.py: _combine_detections.  Times are in 1/16 s, so that the *)
(* repeated halving of up to four merges is exact for events on whole seconds; *)
(* scores are in hundredths.                                                  *)

Tick == 2 * 2 * 2 * 2
MergeWindow == 5
ExcitementThreshold == 70

\* variant of MergeInto: the merged moment takes the incoming score
MergeTakesIncoming(current_moment, moment) ==
    [current_moment EXCEPT !.score = moment.score,
                           !.time = (current_moment.time + moment.time) \div 2]

\* the merge of an incoming moment into the current one
MergeInto(current_moment, moment) ==
    [current_moment EXCEPT !.score = Max(current_moment.score, moment.score),
                           !.time = (current_moment.time + moment.time) \div 2]

RECURSIVE CombineLoop(_, _, _, _)
CombineLoop(all_moments, i, merged_moments, cur) ==
    LET emit(m) == IF m.score >= ExcitementThreshold THEN Append(merged_moments, m)
                   ELSE merged_moments
    IN  IF i > Len(all_moments)
        THEN IF cur # <<>> THEN emit(cur[1]) ELSE merged_moments
        ELSE LET moment == all_moments[i]
             IN  IF cur = <<>>
                 THEN CombineLoop(all_moments, i + 1, merged_moments, <<moment>>)
                 ELSE IF moment.time - cur[1].time <= MergeWindow * Tick
                 THEN CombineLoop(all_moments, i + 1, merged_moments,
                                  <<MergeInto(cur[1], moment)>>)
                 ELSE CombineLoop(all_moments, i + 1, emit(cur[1]), <<moment>>)

\* all_moments = volume_spikes + spectral_changes, sorted by time (stable)
SortByTime(moments) == SortDescBy(LAMBDA m : 0 - m.time, moments)

CombineDetections(volume_spikes, spectral_changes) ==
    CombineLoop(SortByTime(volume_spikes \o spectral_changes), 1, <<>>, <<>>)

-----------------------------------------------------------------------------
(* Calls of single functions on arguments drawn from bounded sets *)

IdlePipeline ==
    /\ pc = "idle"
    /\ video_duration = 0
    /\ probe_ok = TRUE
    /\ tesseract = TRUE
    /\ gameplay_periods = <<>>
    /\ detected_kills = <<>> /\ ocr_failed = FALSE
    /\ detected_audio = <<>> /\ audio_failed = FALSE
    /\ filtered_kills = <<>>
    /\ filtered_audio = <<>>
    /\ correlated = <<>>
    /\ scored = <<>>
    /\ result = <<>>
    /\ path = "none"
    /\ raised_at = "none"
    /\ surfaced = FALSE

\* _generate_clips(highlights, max_clips) on ranked candidate lists
CandidateTimes == {5, 50, 60, 80, 110, 140}
CandidateTypes == {"penta_kill", "audio_highlight"}

RECURSIVE DistinctTimeSeqs(_, _, _)
DistinctTimeSeqs(Times, Tags, n) ==
    IF n = 0 THEN {<<>>}
    ELSE LET shorter == DistinctTimeSeqs(Times, Tags, n - 1)
             longer == {Append(q, [time |-> t, tag |-> g]) :
                           q \in {r \in shorter : Len(r) = n - 1},
                           t \in Times, g \in Tags}
         IN  shorter \cup
             {q \in longer : \A i \in 1..(Len(q) - 1) : q[i].time # q[Len(q)].time}

\* a ranked list: position i carries a score that decreases with i
RankedLists ==
    {[i \in 1..Len(q) |->
         [timestamp |-> q[i].time,
          event_type |-> q[i].tag,
          confidence |-> 80,
          detection_methods |-> IF q[i].tag = "audio_highlight" THEN <<"audio", "hud">>
                                ELSE <<"ocr", "hud">>,
          score |-> (2 * MaxCandidates - i) * (ScoreUnit \div 10)]] :
        q \in DistinctTimeSeqs(CandidateTimes, CandidateTypes, MaxCandidates)}

InitClips ==
    /\ IdlePipeline /\ fb = Idle /\ comb = Idle /\ cor = Idle /\ CallsIdle
    /\ \E h \in RankedLists, m \in 1..MaxClipsArg :
          gen = [pc |-> "call", highlights |-> h, max_clips |-> m]

CallGenerateClips ==
    /\ gen.pc = "call"
    /\ gen' = [pc |-> "done", highlights |-> gen.highlights, max_clips |-> gen.max_clips,
               run |-> GenerateClipsRun(gen.highlights, gen.max_clips)]
    /\ UNCHANGED <<pipeVars, fb, comb, cor, callVars>>

NextClips == CallGenerateClips

SpecClips == InitClips /\ [][NextClips]_vars

\* the fallback generators on a file of a given length, readable or not
\* max_duration of detect_lol_highlights_fast
DefaultMaxDuration == 600

FallbackDurations ==
    {60 * k : k \in 0..MaxMinutes} \cup {150, 151, 239, 345, 346}

InitFallback ==
    /\ IdlePipeline /\ gen = Idle /\ comb = Idle /\ cor = Idle /\ CallsIdle
    /\ \E d \in FallbackDurations, ok \in BOOLEAN :
          fb = [pc |-> "call", duration |-> d, ok |-> ok]

CallFallbacks ==
    /\ fb.pc = "call"
    /\ fb' = [pc |-> "done", duration |-> fb.duration, ok |-> fb.ok,
              pattern |-> PatternBasedFallback(fb.ok, fb.duration),
              periodic |-> GenerateFallbackClips(fb.ok, fb.duration),
              timed |-> DetectLolHighlightsFast(DefaultMaxDuration)]
    /\ UNCHANGED <<pipeVars, gen, comb, cor, callVars>>

NextFallback == CallFallbacks

SpecFallback == InitFallback /\ [][NextFallback]_vars

\* _combine_detections on volume spikes and spectral changes at whole seconds
MomentSeconds == {10, 13, 15, 17, 22, 30}
MomentKinds == {[type |-> "volume", score |-> 150], [type |-> "volume", score |-> 80],
                [type |-> "spectral", score |-> 60]}

RawMoments ==
    {[i \in 1..Len(q) |-> [time |-> q[i].time * Tick, score |-> q[i].tag.score,
                           type |-> q[i].tag.type]] :
        q \in IncreasingSeqs(MomentSeconds, MomentKinds, MaxMoments)}

InitCombine ==
    /\ IdlePipeline /\ gen = Idle /\ fb = Idle /\ cor = Idle /\ CallsIdle
    /\ \E raw \in RawMoments :
          comb = [pc |-> "call",
                  volume_spikes |-> FilterSeq(LAMBDA m : m.type = "volume", raw),
                  spectral_changes |-> FilterSeq(LAMBDA m : m.type = "spectral", raw)]

CallCombineDetections ==
    /\ comb.pc = "call"
    /\ comb' = [pc |-> "done", volume_spikes |-> comb.volume_spikes,
                spectral_changes |-> comb.spectral_changes,
                merged |-> CombineDetections(comb.volume_spikes, comb.spectral_changes)]
    /\ UNCHANGED <<pipeVars, gen, fb, cor, callVars>>

NextCombine == CallCombineDetections

SpecCombine == InitCombine /\ [][NextCombine]_vars

\* _correlate_events on gated kill events (in time order, as the recognizer emits
\* them) and gated audio events (in any order: the analyzer ranks them by score)
CorrelateKillTimes == {100, 130}
CorrelateAudioTimes == {60, 65, 95, 104, 108, 125, 140}
CorrelateAudioScores == {70, 80}

CorrelateKills ==
    {[i \in 1..Len(q) |-> [timestamp |-> q[i].time, event_type |-> q[i].tag,
                           detection_method |-> "ocr_kill_feed",
                           confidence |-> OcrConfidence]] :
        q \in IncreasingSeqs(CorrelateKillTimes, {"double_kill"}, MaxKills)}

CorrelateAudio ==
    {[i \in 1..Len(q) |-> [start_time |-> q[i].time, end_time |-> q[i].time + 3,
                           type |-> "volume_spike", excitement_score |-> q[i].tag]] :
        q \in DistinctTimeSeqs(CorrelateAudioTimes, CorrelateAudioScores,
                               MaxCorrelatedAudio)}

InitCorrelate ==
    /\ IdlePipeline /\ gen = Idle /\ fb = Idle /\ comb = Idle /\ CallsIdle
    /\ \E k \in CorrelateKills, a \in CorrelateAudio :
          cor = [pc |-> "call", kill_events |-> k, audio_moments |-> a]

CallCorrelateEvents ==
    /\ cor.pc = "call"
    /\ cor' = [pc |-> "done", kill_events |-> cor.kill_events,
               audio_moments |-> cor.audio_moments,
               correlated |-> CorrelateEvents(cor.kill_events, cor.audio_moments)]
    /\ UNCHANGED <<pipeVars, gen, fb, comb, callVars>>

NextCorrelate == CallCorrelateEvents

SpecCorrelate == InitCorrelate /\ [][NextCorrelate]_vars

-----------------------------------------------------------------------------
(* Claims about detect_smart_highlights *)

Returned == pc = "done"
ReturnedMain == pc = "done" /\ path = "main"

ClipInsideVideo(c) ==
    /\ 0 <= c.start_time
    /\ c.start_time < c.end_time
    /\ c.end_time <= video_duration
    /\ c.duration = c.end_time - c.start_time

\* C1: every clip returned, on the main path and on the fallback path, satisfies
\* 0 <= start < end <= video_duration and duration = end - start.
C1_ClipsInsideVideo ==
    Returned => \A i \in 1..Len(result) : ClipInsideVideo(result[i])

Disjoint(a, b) == a.end_time <= b.start_time \/ b.end_time <= a.start_time

\* C2: the clips returned by the clip boundary synthesizer are pairwise disjoint.
C2_ClipsPairwiseDisjoint ==
    ReturnedMain =>
        \A i, j \in 1..Len(result) : i # j => Disjoint(result[i], result[j])

\* C4: detect_smart_highlights never surfaces an error; whichever stage raised, the
\* value returned is the output of the pattern-based fallback, which does not raise
\* even when the duration probe fails.
C4_AlwaysCompletesWithFallback ==
    /\ ~surfaced
    /\ (Returned /\ raised_at # "none") =>
          /\ path = "fallback"
          /\ result = PatternBasedFallback(probe_ok, video_duration)
          /\ ~probe_ok => Len(result) = 5
    /\ (Returned /\ raised_at = "none") => path = "main"

\* C4 witness: a run whose clip synthesis raised, on a file whose duration cannot
\* be read, has returned the fallback clips.
C4_Witness ==
    Returned /\ raised_at = "clips" /\ ~probe_ok /\ path = "fallback" /\ Len(result) = 5

\* C5: when no text event and no audio event survives and decoding succeeds, a
\* video of at least 150 s still gets at least one clip (from the fallback generator).
C5_NoEventsStillYieldsClip ==
    (ReturnedMain /\ probe_ok /\ video_duration >= 150
        /\ filtered_kills = <<>> /\ filtered_audio = <<>>)
    => Len(result) >= 1

Correlated == pc \in {"score", "clips", "done"} /\ raised_at = "none"

AudioOnlyEvents ==
    /\ filtered_kills = <<>>
    /\ \A i \in 1..Len(filtered_audio) : filtered_audio[i].excitement_score > 70
    /\ \A i, j \in 1..Len(filtered_audio) :
          i # j => Abs(filtered_audio[i].start_time - filtered_audio[j].start_time)
                     > Max(CorrelationWindow, MinHighlightGap)

\* C8: with no text events, k <= max_clips audio events inside a gameplay period,
\* each above the candidate threshold and pairwise farther apart than the
\* correlation window and min_gap, give exactly k candidates and exactly k final
\* clips, one per event, whatever the strengths.
C8_FarApartAudioEventsAllClipped ==
    (ReturnedMain /\ AudioOnlyEvents /\ Len(filtered_audio) <= DefaultMaxClips) =>
        /\ Len(correlated) = Len(filtered_audio)
        /\ Len(result) = Len(filtered_audio)

TextAnchored(h, kill) == h.timestamp = kill.timestamp /\ h.primary_event = kill

\* the parts of Scenario C that do not name the methods
SupportedAnchorShape(kill, audio) ==
    /\ Cardinality({h \in 1..Len(correlated) :
                       correlated[h].timestamp = kill.timestamp}) = 1
    /\ \E h \in 1..Len(correlated) :
          /\ TextAnchored(correlated[h], kill)
          /\ correlated[h].confidence = Min(100, kill.confidence + 20)
    /\ \A h \in 1..Len(correlated) : correlated[h].primary_event # audio

SupportedPairs ==
    {<<k, a>> \in (1..Len(filtered_kills)) \X (1..Len(filtered_audio)) :
        Abs(filtered_audio[a].start_time - filtered_kills[k].timestamp)
            <= CorrelationWindow}

\* C10 as stated: a text event and an audio event within the correlation window
\* give exactly one candidate, anchored at the text event, with methods exactly
\* {text, audio} and confidence min(1, anchor confidence + 0.2), and no candidate
\* for the audio event.
C10_Original_MethodsTextAudio ==
    Correlated =>
        \A p \in SupportedPairs :
            /\ SupportedAnchorShape(filtered_kills[p[1]], filtered_audio[p[2]])
            /\ \A h \in 1..Len(correlated) :
                  TextAnchored(correlated[h], filtered_kills[p[1]]) =>
                      {correlated[h].detection_methods[m] :
                          m \in 1..Len(correlated[h].detection_methods)}
                      = {"ocr", "audio"}

\* C10 amended: as above, but the candidate's methods are ocr, hud and audio (the
\* gameplay gate is always listed as a method).
C10_SupportedAnchorCandidate ==
    Correlated =>
        \A p \in SupportedPairs :
            /\ SupportedAnchorShape(filtered_kills[p[1]], filtered_audio[p[2]])
            /\ \A h \in 1..Len(correlated) :
                  TextAnchored(correlated[h], filtered_kills[p[1]]) =>
                      correlated[h].detection_methods = <<"ocr", "hud", "audio">>

\* C10 witness: a recognized kill and an audio moment 5 s after it were correlated.
C10_Witness ==
    /\ Correlated
    /\ \E p \in SupportedPairs :
          /\ filtered_kills[p[1]].detection_method = "ocr_kill_feed"
          /\ filtered_audio[p[2]].start_time - filtered_kills[p[1]].timestamp = 5
          /\ Len(correlated) = 1

-----------------------------------------------------------------------------
(* Claims about _generate_clips *)

GenDone == gen.pc = "done"

\* C3: _generate_clips returns at most max_clips clips, looks at no more than the
\* first 2 * max_clips candidates, and once the target count is reached the last
\* candidate it looked at is the one it accepted last.
C3_AtMostMaxClips ==
    GenDone =>
        /\ Len(gen.run.clips) <= gen.max_clips
        /\ gen.run.examined <= 2 * gen.max_clips
        /\ gen.run.examined <= Len(gen.highlights)
        /\ Len(gen.run.clips) = gen.max_clips =>
              gen.highlights[gen.run.examined].timestamp
                  = gen.run.anchors[Len(gen.run.anchors)]

\* C3 witness: the target count was reached while acceptable candidates were left.
C3_Witness ==
    /\ GenDone
    /\ gen.max_clips = 2
    /\ Len(gen.run.clips) = 2
    /\ gen.run.examined < Len(gen.highlights)
    /\ \E i \in (gen.run.examined + 1)..Len(gen.highlights) :
          gen.highlights[i].timestamp - gen.run.anchors[2] >= MinHighlightGap

-----------------------------------------------------------------------------
(* Claims about the fallback generators *)

FbDone == fb.pc = "done"

\* C6: each fallback generator (_pattern_based_fallback, _generate_fallback_clips)
\* returns at least one clip for every known video duration above 150 s; an empty
\* list is returned only when the duration is unknown.
C6_FallbackClipAbove150 ==
    (FbDone /\ fb.ok /\ fb.duration > 150) =>
        (Len(fb.pattern) >= 1 /\ Len(fb.periodic) >= 1)

-----------------------------------------------------------------------------
(* Claims about _combine_detections *)

CombDone == comb.pc = "done"

CombInput == SortByTime(comb.volume_spikes \o comb.spectral_changes)

AllReachThreshold ==
    \A i \in 1..Len(CombInput) : CombInput[i].score >= ExcitementThreshold

WideGaps ==
    {i \in 1..(Len(CombInput) - 1) :
        CombInput[i + 1].time - CombInput[i].time > MergeWindow * Tick}

\* a stream of exactly two events at most the merge window apart
PairWithinWindow ==
    /\ Len(CombInput) = 2
    /\ CombInput[2].time - CombInput[1].time <= MergeWindow * Tick

PairMerged(out) ==
    /\ Len(out) = 1
    /\ out[1].score = Max(CombInput[1].score, CombInput[2].score)
    /\ 2 * out[1].time = CombInput[1].time + CombInput[2].time

-----------------------------------------------------------------------------
(* Claims about the gap rule of _generate_clips *)

\* position in the ranked list of the candidate with the given anchor time
\* (anchor times of a ranked list are distinct)
RankOf(timestamp) ==
    CHOOSE i \in 1..Len(gen.highlights) : gen.highlights[i].timestamp = timestamp

\* the anchors accepted before candidate i was examined, in acceptance order
AcceptedBefore(i) ==
    FilterSeq(LAMBDA a : RankOf(a) < i, gen.run.anchors)

WithinGapOfLastAccepted(i) ==
    LET before == AcceptedBefore(i)
    IN  /\ before # <<>>
        /\ Abs(gen.highlights[i].timestamp - before[Len(before)]) < MinHighlightGap

\* C11: a candidate whose anchor time is less than min_gap (30 s) away from the
\* anchor of the most recently accepted clip is skipped whatever its score; ranked
\* candidates at 50 s and 60 s give only the clip anchored at 50 s.
C11_WithinGapSkipped ==
    GenDone =>
        /\ \A i \in 1..gen.run.examined :
              WithinGapOfLastAccepted(i) =>
                  \A a \in 1..Len(gen.run.anchors) :
                      gen.run.anchors[a] # gen.highlights[i].timestamp
        /\ (Len(gen.highlights) = 2 /\ gen.max_clips >= 2
              /\ gen.highlights[1].timestamp = 50 /\ gen.highlights[2].timestamp = 60)
           => gen.run.anchors = <<50>>

\* C11 witness: the candidates at 50 s and 60 s were examined with room for two
\* clips, and only the one at 50 s was accepted.
C11_Witness ==
    /\ GenDone
    /\ gen.max_clips = 2
    /\ Len(gen.highlights) = 2
    /\ gen.highlights[1].timestamp = 50 /\ gen.highlights[2].timestamp = 60
    /\ gen.run.examined = 2
    /\ Len(gen.run.clips) = 1

-----------------------------------------------------------------------------
(* Claims about the gameplay periods used for gating *)

PastHud == pc \in {"kills", "audio", "correlate", "score", "clips", "done"}
              /\ raised_at = "none"

\* [0.05 * duration, 0.95 * duration] with confidence 0.6, in the units of the periods
HeuristicPeriod ==
    [start_time |-> (video_duration * PeriodScale) \div 20,
     end_time |-> (video_duration * PeriodScale * 19) \div 20,
     confidence |-> 9, method |-> "fallback"]

\* C12: whenever the HUD analysis yields no gameplay period, the period set used
\* for gating is exactly the one period [0.05 d, 0.95 d] with confidence 0.6; gating
\* never runs against an empty period set.
C12_HeuristicPeriodSubstituted ==
    PastHud =>
        /\ gameplay_periods # <<>>
        /\ gameplay_periods[1].method = "fallback" =>
              gameplay_periods = <<HeuristicPeriod>>

-----------------------------------------------------------------------------
(* Claims about scores *)

\* C13: the score attached to every output clip lies in [0, 1], on the main path and
\* on the fallback path.
C13_ClipScoreInUnitInterval ==
    Returned =>
        \A i \in 1..Len(result) :
            0 <= result[i].excitement_score /\ result[i].excitement_score <= ScoreUnit

-----------------------------------------------------------------------------
(* Claims about the extractors *)

\* C14: an extractor that fails internally (the text recognizer or the audio
\* analyzer raising) hands an empty event list to the correlator; a failed extractor
\* never contributes events.
C14_FailedExtractorContributesNothing ==
    raised_at = "none" =>
        /\ ocr_failed => filtered_kills = <<>>
        /\ audio_failed => filtered_audio = <<>>

-----------------------------------------------------------------------------
(* Claims about synthetic text events *)

Synthetic(event) ==
    "detection_method" \in DOMAIN event /\ event.detection_method = "pattern_based"

\* event types the recognition engine can emit
RecognizableTypes == {KeywordEventType[k] : k \in DOMAIN KeywordEventType}

\* the fields by which a consumer can tell how a clip was detected
ClipLabels(clip) == <<clip.methods_used, clip.in_game_verified, clip.detection_reason>>

\* the clip the same run returns for a truly recognized event of the same type at
\* the same time
RecognizedTwinClip(h) ==
    LET twin == KillHighlight([timestamp |-> h.timestamp,
                               event_type |-> h.event_type,
                               detection_method |-> "ocr_kill_feed",
                               confidence |-> OcrConfidence], filtered_audio)
    IN  MakeClip([score |-> HighlightScore(twin)] @@ twin)

\* C15: synthetic text events carry a confidence below the 0.8 of true detections
\* and the tag pattern_based, and a clip anchored on a synthetic event differs in its
\* methods / verified / reason fields from the clip of a truly recognized event.
C15_SyntheticClipsDistinguishable ==
    ReturnedMain =>
        /\ \A e \in 1..Len(detected_kills) :
              Synthetic(detected_kills[e]) => detected_kills[e].confidence < OcrConfidence
        /\ \A i \in 1..Len(scored) :
              (/\ Synthetic(scored[i].primary_event)
               /\ scored[i].event_type \in RecognizableTypes
               /\ \E c \in 1..Len(result) : result[c] = MakeClip(scored[i]))
              => ClipLabels(MakeClip(scored[i])) # ClipLabels(RecognizedTwinClip(scored[i]))

-----------------------------------------------------------------------------
(* Claims about gameplay gating *)

Gated == pc \in {"correlate", "score", "clips", "done"} /\ raised_at = "none"

\* some gameplay period has start <= t <= end
InsideSomePeriod(t) ==
    \E p \in 1..Len(gameplay_periods) :
        /\ gameplay_periods[p].start_time <= t * PeriodScale
        /\ t * PeriodScale <= gameplay_periods[p].end_time

\* C16: every text event and every audio event handed to the correlator lies inside
\* some gameplay period, exactly the detected events inside a period are handed
\* over, and on the main path every output clip is anchored inside a period.
C16_OnlyInGameEventsCorrelated ==
    Gated =>
        /\ \A k \in 1..Len(filtered_kills) : InsideSomePeriod(filtered_kills[k].timestamp)
        /\ \A a \in 1..Len(filtered_audio) : InsideSomePeriod(filtered_audio[a].start_time)
        /\ \A k \in 1..Len(detected_kills) :
              InsideSomePeriod(detected_kills[k].timestamp) <=>
                  \E f \in 1..Len(filtered_kills) : filtered_kills[f] = detected_kills[k]
        /\ \A a \in 1..Len(detected_audio) :
              InsideSomePeriod(detected_audio[a].start_time) <=>
                  \E f \in 1..Len(filtered_audio) : filtered_audio[f] = detected_audio[a]
        /\ pc = "done" =>
              \A c \in 1..Len(result) :
                  \E h \in 1..Len(scored) :
                      /\ result[c] = MakeClip(scored[h])
                      /\ InsideSomePeriod(scored[h].timestamp)

\* C16 witness: a run that dropped a detected event lying after the gameplay
\* period, kept another one, and returned a clip.
C16_Witness ==
    /\ Gated /\ pc = "done"
    /\ result # <<>>
    /\ filtered_kills # <<>>
    /\ \E k \in 1..Len(detected_kills) :
          /\ ~InsideSomePeriod(detected_kills[k].timestamp)
          /\ \E p \in 1..Len(gameplay_periods) :
                detected_kills[k].timestamp * PeriodScale > gameplay_periods[p].end_time

-----------------------------------------------------------------------------
(* Claims about the ranking *)

Ranked == pc \in {"clips", "done"} /\ raised_at = "none"

\* C17: after scoring, the candidates are in descending order of score, and
\* candidates with equal scores are in order of anchor time, earlier first.
C17_RankedByScoreThenTime ==
    Ranked =>
        \A i, j \in 1..Len(scored) :
            i < j =>
                \/ scored[i].score > scored[j].score
                \/ /\ scored[i].score = scored[j].score
                   /\ scored[i].timestamp <= scored[j].timestamp

TextAnchoredCandidate(h) == "detection_method" \in DOMAIN h.primary_event

\* the extractors (text recognizer, audio analyzer) that support a candidate
ExtractorCount(h) ==
    IF TextAnchoredCandidate(h) /\ h.supporting_audio # <<>> THEN 2 ELSE 1

\* base_priority * confidence * method_bonus * agreement_bonus, clamped at 10, with
\* method_bonus in tenths
ScoreWithBonus(h, bonus) ==
    Min(EventScore(h.event_type) * h.confidence * bonus * (1000 + h.audio_boost * 3),
        10 * ScoreUnit)

\* C18 as stated: method_bonus is 1.0 for a candidate supported by one extractor,
\* 1.2 for two and 1.4 for three or more.
C18_Original_BonusByExtractors ==
    Ranked =>
        \A i \in 1..Len(scored) :
            scored[i].score =
                ScoreWithBonus(scored[i],
                               CASE ExtractorCount(scored[i]) = 1 -> 10
                                 [] ExtractorCount(scored[i]) = 2 -> 12
                                 [] OTHER -> 14)

\* C18 amended: the score is base_priority * confidence * method_bonus *
\* agreement_bonus clamped at 10, where method_bonus follows the length of the
\* methods list, which always holds 'hud': 1.2 for a candidate supported by one
\* extractor (text only or audio only) and 1.4 for text with audio; 1.0 does not
\* occur.
C18_BonusByMethodsList ==
    Ranked =>
        \A i \in 1..Len(scored) :
            scored[i].score =
                ScoreWithBonus(scored[i],
                               IF ExtractorCount(scored[i]) = 1 THEN 12 ELSE 14)

\* C18 witness: a text-only candidate, an audio-only candidate and a candidate with
\* text and audio have been scored below the clamp.
C18_Witness ==
    /\ Ranked
    /\ \E i \in 1..Len(scored) :
          /\ TextAnchoredCandidate(scored[i]) /\ ExtractorCount(scored[i]) = 1
          /\ scored[i].score < 10 * ScoreUnit
    /\ \E i \in 1..Len(scored) :
          /\ ~TextAnchoredCandidate(scored[i])
          /\ scored[i].score < 10 * ScoreUnit
    /\ \E i \in 1..Len(scored) :
          /\ ExtractorCount(scored[i]) = 2
          /\ scored[i].score < 10 * ScoreUnit

-----------------------------------------------------------------------------
(* Claims about _correlate_events *)

CorDone == cor.pc = "done"

\* audio event j of the call is the primary event of a candidate of its own
BecomesCandidate(j) ==
    \E h \in 1..Len(cor.correlated) :
        /\ cor.correlated[h].event_type = "audio_highlight"
        /\ cor.correlated[h].primary_event = cor.audio_moments[j]

NearTextAnchor(j) ==
    \E k \in 1..Len(cor.kill_events) :
        Abs(cor.kill_events[k].timestamp - cor.audio_moments[j].start_time)
            <= CorrelationWindow

NearEarlierAudioCandidate(j) ==
    \E i \in 1..(j - 1) :
        /\ BecomesCandidate(i)
        /\ Abs(cor.audio_moments[i].start_time - cor.audio_moments[j].start_time)
              <= CorrelationWindow

C20_CandidateConfidenceInUnitInterval ==
    Correlated =>
        \A h \in 1..Len(correlated) :
            0 <= correlated[h].confidence /\ correlated[h].confidence <= 100

-----------------------------------------------------------------------------
(* A call of analyze_gameplay_periods on the samples of one video *)

FirstCallsIdle == gen = Idle /\ fb = Idle /\ comb = Idle /\ cor = Idle

\* at most this many separate runs of in-game samples in one video
MaxRuns == 2

\* durations whose sample spacing is 12.5 s, exactly 60 s, and 112.5 s
SampledDurations == {200, 960, 1800}

\* the sample that is lost to a timeout or a short read (0: none)
LostChoices == {0, 2, 7, 15}

\* number of maximal runs of consecutive members of S within 1..SampleCount
RunCount(S) == Cardinality({i \in S : (i - 1) \notin S})

InGameSets == {S \in SUBSET (1..SampleCount) : RunCount(S) <= MaxRuns}

\* what detect_hud_elements finds in sample i: two or three key elements inside the
\* in-game set S, none or one outside
SampleOutcome(S, lost) ==
    [i \in 1..SampleCount |->
        IF i = lost THEN LostSample
        ELSE IF i \in S THEN Hud(2 + (i % 2)) ELSE Hud(i % 2)]

InitPeriods ==
    /\ IdlePipeline /\ FirstCallsIdle
    /\ ob = Idle /\ ro = Idle /\ fx = Idle /\ syn = Idle /\ aud = Idle
    /\ \E d \in SampledDurations, S \in InGameSets, lost \in LostChoices :
          per = [pc |-> "call", duration |-> d, outcome |-> SampleOutcome(S, lost)]

CallAnalyzeGameplayPeriods ==
    /\ per.pc = "call"
    /\ LET frames == ExtractSampleFrames(TRUE, per.duration, per.outcome)
       IN  per' = [pc |-> "done", duration |-> per.duration, outcome |-> per.outcome,
                   frames |-> frames, periods |-> AnalyzeGameplayPeriods(frames)]
    /\ UNCHANGED <<pipeVars, gen, fb, comb, cor, ob, ro, fx, syn, aud>>

NextPeriods == CallAnalyzeGameplayPeriods

SpecPeriods == InitPeriods /\ [][NextPeriods]_vars

-----------------------------------------------------------------------------
(* Claims about analyze_gameplay_periods *)

PerDone == per.pc = "done"

\* at least 2 of the 3 key regions are present in the sample
AtLeastTwoKeyRegions(hud) ==
    \/ hud.minimap /\ hud.abilities
    \/ hud.minimap /\ hud.health_bar
    \/ hud.abilities /\ hud.health_bar

\* samples a..b of the call form a maximal run of consecutive in-game samples
MaximalRun(a, b) ==
    /\ a <= b
    /\ \A i \in a..b : AtLeastTwoKeyRegions(per.frames[i].hud)
    /\ a = 1 \/ ~AtLeastTwoKeyRegions(per.frames[a - 1].hud)
    /\ b = Len(per.frames) \/ ~AtLeastTwoKeyRegions(per.frames[b + 1].hud)

RunSpan(a, b) == per.frames[b].timestamp - per.frames[a].timestamp

LongRuns ==
    {r \in (1..Len(per.frames)) \X (1..Len(per.frames)) :
        MaximalRun(r[1], r[2]) /\ RunSpan(r[1], r[2]) > 60 * PeriodScale}

-----------------------------------------------------------------------------
(* Claims about the kind-tier table of _generate_clips *)

\* the tier table of the specification, <<duration, pre-roll>>, for the kinds the
\* extractors emit
TierOfKind(kind) ==
    IF kind \in {"penta_kill", "quadra_kill"} THEN <<60, 15>>
    ELSE IF kind \in {"team_fight", "baron_fight"} THEN <<45, 10>>
    ELSE IF kind \in {"triple_kill", "double_kill"} THEN <<40, 8>>
    ELSE <<35, 6>>

\* C22: clip duration and pre-roll follow the kind-tier table for every kind the
\* extractors can emit, the teamfight and baron events of the synthetic generator
\* included: penta/quadra 60 s / 15 s, major objective or teamfight 45 s / 10 s,
\* triple/double 40 s / 8 s, everything else 35 s / 6 s; start = max(0, anchor -
\* pre-roll) and end = start + duration.
C22_ClipsFollowTierTable ==
    ReturnedMain =>
        \A c \in 1..Len(result) :
            \E h \in 1..Len(scored) :
                LET tier == TierOfKind(scored[h].event_type) IN
                /\ result[c].event_type = scored[h].event_type
                /\ result[c].duration = tier[1]
                /\ result[c].start_time = Max(0, scored[h].timestamp - tier[2])
                /\ result[c].end_time = result[c].start_time + tier[1]

-----------------------------------------------------------------------------
(* audio_analyzer.py: _optimize_clip_boundaries and _remove_overlaps; whole seconds *)

MinClipDuration == 30
MaxClipDuration == 60
DefaultClipDuration == 45

\* the overlap test of _remove_overlaps
Overlaps(clip, selected) ==
    clip.start_time < selected.end_time /\ clip.end_time > selected.start_time

\* variant of SortByScore: lowest score first
SortByScoreAscending(clips) == SortDescBy(LAMBDA c : 0 - c.score, clips)

\* clips.sort(key=score, reverse=True), stable
SortByScore(clips) == SortDescBy(LAMBDA c : c.score, clips)

\* non_overlapping.sort(key=start_time), stable
SortByStartTime(clips) == SortDescBy(LAMBDA c : 0 - c.start_time, clips)

\* the loop of _remove_overlaps over the clips sorted by score
RECURSIVE OverlapLoop(_, _, _)
OverlapLoop(clips, i, non_overlapping) ==
    IF i > Len(clips) THEN non_overlapping
    ELSE LET overlaps == \E k \in 1..Len(non_overlapping) :
                             Overlaps(clips[i], non_overlapping[k])
         IN  OverlapLoop(clips, i + 1,
                 IF overlaps THEN non_overlapping ELSE Append(non_overlapping, clips[i]))

RemoveOverlaps(clips) ==
    IF clips = <<>> THEN <<>>
    ELSE SortByStartTime(OverlapLoop(SortByScore(clips), 1, <<>>))

\* variant of ClipWindow: only a window clamped at 0 is extended
ClipWindowExtendingEndOnly(moment, total_duration) ==
    LET pre_excitement == (DefaultClipDuration * 6) \div 10
        post_excitement == (DefaultClipDuration * 4) \div 10
        start_time == Max(0, moment.time - pre_excitement)
        end_time == Min(total_duration, moment.time + post_excitement)
        end_adj == IF end_time - start_time < MinClipDuration /\ start_time = 0
                   THEN Min(total_duration, start_time + MinClipDuration)
                   ELSE end_time
    IN  [start_time |-> start_time, end_time |-> end_adj,
         duration |-> end_adj - start_time,
         excitement_time |-> moment.time, score |-> moment.score]

\* the body of the loop of _optimize_clip_boundaries: the clip of one moment
ClipWindow(moment, total_duration) ==
    LET clip_duration == Min(MaxClipDuration, Max(MinClipDuration, DefaultClipDuration))
        pre_excitement == (clip_duration * 6) \div 10
        post_excitement == (clip_duration * 4) \div 10
        start_time == Max(0, moment.time - pre_excitement)
        end_time == Min(total_duration, moment.time + post_excitement)
        short == end_time - start_time < MinClipDuration
        end_adj == IF short /\ start_time = 0
                   THEN Min(total_duration, start_time + MinClipDuration)
                   ELSE end_time
        start_adj == IF short /\ start_time # 0 /\ end_time = total_duration
                     THEN Max(0, end_time - MinClipDuration)
                     ELSE start_time
    IN  [start_time |-> start_adj, end_time |-> end_adj,
         duration |-> end_adj - start_adj,
         excitement_time |-> moment.time, score |-> moment.score]

\* optimized_clips before the call of _remove_overlaps
ClipWindows(excitement_moments, total_duration) ==
    [i \in 1..Len(excitement_moments) |-> ClipWindow(excitement_moments[i], total_duration)]

OptimizeClipBoundaries(excitement_moments, total_duration) ==
    RemoveOverlaps(ClipWindows(excitement_moments, total_duration))

-----------------------------------------------------------------------------
(* A call of _optimize_clip_boundaries *)

\* at most this many excitement moments in one call
MaxExcitement == 2

\* len(y) / sr of the audio: shorter than the minimum clip, just below it, long
TotalDurations == {20, 29, 100}
ExcitementTimes == {0, 10, 28, 50, 90, 100}
ExcitementScores == {70, 90}

\* what _combine_detections hands over: moments in ascending time order
ExcitementMoments(total_duration) ==
    UNION {{q \in [1..n -> [time : {t \in ExcitementTimes : t <= total_duration},
                            score : ExcitementScores]] :
               \A i \in 1..(n - 1) : q[i].time < q[i + 1].time} : n \in 0..MaxExcitement}

InitBoundaries ==
    /\ IdlePipeline /\ FirstCallsIdle
    /\ per = Idle /\ ro = Idle /\ fx = Idle /\ syn = Idle /\ aud = Idle
    /\ \E d \in TotalDurations :
          \E q \in ExcitementMoments(d) :
              ob = [pc |-> "call", excitement_moments |-> q, total_duration |-> d]

CallOptimizeClipBoundaries ==
    /\ ob.pc = "call"
    /\ ob' = [pc |-> "done", excitement_moments |-> ob.excitement_moments,
              total_duration |-> ob.total_duration,
              windows |-> ClipWindows(ob.excitement_moments, ob.total_duration),
              optimized_clips |->
                  OptimizeClipBoundaries(ob.excitement_moments, ob.total_duration)]
    /\ UNCHANGED <<pipeVars, gen, fb, comb, cor, per, ro, fx, syn, aud>>

NextBoundaries == CallOptimizeClipBoundaries

SpecBoundaries == InitBoundaries /\ [][NextBoundaries]_vars

-----------------------------------------------------------------------------
(* Claims about _optimize_clip_boundaries *)

ObDone == ob.pc = "done"

\* the 45 s window around the excitement time does not fit into the recording
Clamped(w) ==
    w.excitement_time - 27 < 0 \/ w.excitement_time + 18 > ob.total_duration

\* C23: for every excitement time t with 0 <= t <= total_duration,
\* _optimize_clip_boundaries produces a window with 0 <= start < end <= total_duration,
\* and a window with a clamped boundary that fell below 30 s is shifted inward so that
\* its duration is at least min(30 s, total_duration).
C23_WindowsClampedWithMinimum ==
    ObDone =>
        \A k \in 1..Len(ob.windows) :
            LET w == ob.windows[k] IN
            /\ 0 <= w.start_time
            /\ w.start_time < w.end_time
            /\ w.end_time <= ob.total_duration
            /\ w.duration = w.end_time - w.start_time
            /\ Clamped(w) => w.duration >= Min(30, ob.total_duration)

\* C23 witness: a moment at the very end of a 100 s recording got the window 70..100,
\* its start moved back from 73 to keep 30 s, and the window was returned.
C23_Witness ==
    /\ ObDone
    /\ ob.total_duration = 100
    /\ \E k \in 1..Len(ob.optimized_clips) :
          /\ ob.optimized_clips[k].excitement_time = 100
          /\ ob.optimized_clips[k].start_time = 70
          /\ ob.optimized_clips[k].end_time = 100

-----------------------------------------------------------------------------
(* A call of _remove_overlaps *)

\* at most this many clips in one call
MaxOverlapClips == 3

OverlapStarts == {0, 10, 20}
OverlapLengths == {10, 25}
OverlapScores == {50, 90}

\* clip lists in any order, equal scores and equal windows included
OverlapInputs ==
    UNION {[1..n -> {[start_time |-> s, end_time |-> s + l, duration |-> l, score |-> v] :
                        s \in OverlapStarts, l \in OverlapLengths, v \in OverlapScores}] :
              n \in 0..MaxOverlapClips}

InitOverlaps ==
    /\ IdlePipeline /\ FirstCallsIdle
    /\ per = Idle /\ ob = Idle /\ fx = Idle /\ syn = Idle /\ aud = Idle
    /\ \E q \in OverlapInputs : ro = [pc |-> "call", clips |-> q]

CallRemoveOverlaps ==
    /\ ro.pc = "call"
    /\ ro' = [pc |-> "done", clips |-> ro.clips,
              non_overlapping |-> RemoveOverlaps(ro.clips)]
    /\ UNCHANGED <<pipeVars, gen, fb, comb, cor, per, ob, fx, syn, aud>>

NextOverlaps == CallRemoveOverlaps

SpecOverlaps == InitOverlaps /\ [][NextOverlaps]_vars

-----------------------------------------------------------------------------
(* Claims about _remove_overlaps *)

RoDone == ro.pc = "done"

Kept(clip) == \E k \in 1..Len(ro.non_overlapping) : ro.non_overlapping[k] = clip

\* C24: _remove_overlaps returns a pairwise-disjoint subset of its input that
\* contains the highest-scored input clip (the first of them in input order when
\* several share the highest score), and every input clip that is left out overlaps
\* (new.start < kept.end and new.end > kept.start) a kept clip whose score is at
\* least its own.
C24_GreedyOverlapRemoval ==
    RoDone =>
        /\ \A k \in 1..Len(ro.non_overlapping) :
              \E i \in 1..Len(ro.clips) : ro.clips[i] = ro.non_overlapping[k]
        /\ \A j, k \in 1..Len(ro.non_overlapping) :
              j # k =>
                  ~(/\ ro.non_overlapping[j].start_time < ro.non_overlapping[k].end_time
                    /\ ro.non_overlapping[j].end_time > ro.non_overlapping[k].start_time)
        /\ \A i \in 1..Len(ro.clips) :
              (\A j \in 1..Len(ro.clips) :
                    /\ ro.clips[j].score <= ro.clips[i].score
                    /\ j < i => ro.clips[j].score < ro.clips[i].score)
                  => Kept(ro.clips[i])
        /\ \A i \in 1..Len(ro.clips) :
              ~Kept(ro.clips[i]) =>
                  \E k \in 1..Len(ro.non_overlapping) :
                      /\ ro.clips[i].start_time < ro.non_overlapping[k].end_time
                      /\ ro.clips[i].end_time > ro.non_overlapping[k].start_time
                      /\ ro.non_overlapping[k].score >= ro.clips[i].score

\* C24 witness: of three clips the best-scored one came last in the input, was kept,
\* and pushed out an overlapping clip of lower score, while a clip that only touches
\* the kept one (its start is the other's end) stayed.
C24_Witness ==
    /\ RoDone
    /\ Len(ro.clips) = 3
    /\ Len(ro.non_overlapping) = 2
    /\ ro.clips[3].score > ro.clips[1].score
    /\ Kept(ro.clips[3]) /\ ~Kept(ro.clips[1]) /\ Kept(ro.clips[2])
    /\ ro.clips[2].start_time = ro.clips[3].end_time

-----------------------------------------------------------------------------
(* Claims about the order of the clips _generate_clips returns *)

\* C25: for every ranked candidate list, the list _generate_clips returns has
\* non-decreasing start times, whatever the score order in which the clips were
\* accepted.
C25_ClipsInStartTimeOrder ==
    GenDone =>
        \A k \in 1..(Len(gen.run.clips) - 1) :
            gen.run.clips[k].start_time <= gen.run.clips[k + 1].start_time

\* C25 witness: two clips were returned although a candidate ranked below the first
\* accepted one lies more than min_gap before it in the video and was examined.
C25_Witness ==
    /\ GenDone
    /\ Len(gen.run.clips) = 2
    /\ \E i \in 2..gen.run.examined :
          /\ RankOf(gen.run.anchors[2]) > i
          /\ gen.highlights[i].timestamp + MinHighlightGap < gen.run.anchors[1]

-----------------------------------------------------------------------------
(* Claims about the shape of the fallback generators' output *)

\* all windows of the list have the same duration
FixedDuration(clips) ==
    \A j, k \in 1..Len(clips) : clips[j].duration = clips[k].duration

\* consecutive windows of the list are the same distance apart
EvenlySpaced(clips) ==
    \A j, k \in 1..(Len(clips) - 1) :
        clips[j + 1].start_time - clips[j].start_time
            = clips[k + 1].start_time - clips[k].start_time

StartAfter(clips, offset) ==
    \A k \in 1..Len(clips) : clips[k].start_time >= offset

ScoresDecreasing(clips) ==
    \A k \in 1..(Len(clips) - 1) :
        clips[k].excitement_score > clips[k + 1].excitement_score

\* C26: for every duration, the output of each fallback generator is a sequence of
\* fixed-duration, evenly spaced windows that all start after the initial offset
\* (120 s for _pattern_based_fallback, 60 s for the two generators of the audio
\* analyzer), and the placeholder scores decrease along the returned sequence.
C26_FallbackShape ==
    FbDone =>
        /\ FixedDuration(fb.pattern) /\ EvenlySpaced(fb.pattern)
        /\ StartAfter(fb.pattern, 120) /\ ScoresDecreasing(fb.pattern)
        /\ FixedDuration(fb.periodic) /\ EvenlySpaced(fb.periodic)
        /\ StartAfter(fb.periodic, 60) /\ ScoresDecreasing(fb.periodic)
        /\ FixedDuration(fb.timed) /\ EvenlySpaced(fb.timed)
        /\ StartAfter(fb.timed, 60) /\ ScoresDecreasing(fb.timed)

-----------------------------------------------------------------------------
(* Two calls of detect_kill_events_fallback for the same file *)

SyntheticDurations == {200, 400, 900, 1500, 1800, 2400, 3600}

\* each call draws afresh from the process-wide generator, which nothing seeds
InitSynthetic ==
    /\ IdlePipeline /\ FirstCallsIdle
    /\ per = Idle /\ ob = Idle /\ ro = Idle /\ fx = Idle /\ aud = Idle
    /\ \E d \in SyntheticDurations, ok \in BOOLEAN :
          syn = [pc |-> "call", duration |-> d, ok |-> ok,
                 first |-> <<>>, second |-> <<>>]

CallFallbackFirst ==
    /\ syn.pc = "call"
    /\ \E draw \in RandomDraws :
          syn' = [syn EXCEPT !.pc = "again",
                             !.first = DetectKillEventsFallback(syn.ok, syn.duration, draw)]
    /\ UNCHANGED <<pipeVars, gen, fb, comb, cor, per, ob, ro, fx, aud>>

CallFallbackSecond ==
    /\ syn.pc = "again"
    /\ \E draw \in RandomDraws :
          syn' = [syn EXCEPT !.pc = "done",
                             !.second = DetectKillEventsFallback(syn.ok, syn.duration, draw)]
    /\ UNCHANGED <<pipeVars, gen, fb, comb, cor, per, ob, ro, fx, aud>>

NextSynthetic == CallFallbackFirst \/ CallFallbackSecond

SpecSynthetic == InitSynthetic /\ [][NextSynthetic]_vars

-----------------------------------------------------------------------------
(* Claims about the synthetic text-event generator *)

SynDone == syn.pc = "done"

\* C27: the synthetic text-event generator is a deterministic function of the video
\* duration alone: two invocations for the same duration return the same events with
\* the same timestamps, and every generated timestamp lies within [0, duration].
C27_SyntheticGeneratorDeterministic ==
    SynDone =>
        /\ syn.first = syn.second
        /\ \A k \in 1..Len(syn.first) :
              0 <= syn.first[k].timestamp /\ syn.first[k].timestamp <= syn.duration

-----------------------------------------------------------------------------
(* extract_frames_for_ocr, one action per pass of the while loop *)

\* at most this many sample times in one call
MaxSamples == 4

\* the interval detect_kill_events_ocr passes (2 s), and a coarse one that brings
\* the 20 minute limit within MaxSamples samples
SampleIntervals == {2, 400}
FrameDurations == {0, 3, 4, 7, 9, 1000, 1800}

\* what one ffmpeg call can end in: a full frame, a non-zero return code or a short
\* read, subprocess.TimeoutExpired, any other exception
DecodeOutcomes == {"frame", "empty", "timeout", "error"}

\* variant of KeepsSampling: the loop runs to the end of the video
KeepsSamplingToTheEnd(current_time, duration) == current_time < duration

\* the condition of the while loop
KeepsSampling(current_time, duration) ==
    current_time < duration /\ current_time < OcrSpanLimit

\* number of passes the loop makes
PassCount(duration, interval) ==
    (Min(duration, OcrSpanLimit) + interval - 1) \div interval

InitFrames ==
    /\ IdlePipeline /\ FirstCallsIdle
    /\ per = Idle /\ ob = Idle /\ ro = Idle /\ syn = Idle /\ aud = Idle
    /\ \E d \in FrameDurations, iv \in SampleIntervals, ok \in BOOLEAN :
          /\ PassCount(d, iv) <= MaxSamples
          /\ fx = [pc |-> "probe", ok |-> ok, duration |-> d, interval |-> iv,
                   current_time |-> 0, frames |-> <<>>,
                   attempted |-> <<>>, outcomes |-> <<>>, returned |-> <<>>]

\* ffprobe and the parsing of its answer; a failure is caught by the outer handler,
\* which returns []
ProbeFrames ==
    /\ fx.pc = "probe"
    /\ fx' = IF fx.ok THEN [fx EXCEPT !.pc = "loop"] ELSE [fx EXCEPT !.pc = "done"]
    /\ UNCHANGED <<pipeVars, gen, fb, comb, cor, per, ob, ro, syn, aud>>

\* one pass of the loop: the ffmpeg call ends within its 10 s timeout in one of the
\* outcomes, and current_time advances on every path.  attempted and outcomes record
\* the passes made so far.
SampleFrame ==
    /\ fx.pc = "loop"
    /\ KeepsSampling(fx.current_time, fx.duration)
    /\ \E outcome \in DecodeOutcomes :
          fx' = [fx EXCEPT !.frames = IF outcome = "frame"
                                      THEN Append(fx.frames, fx.current_time)
                                      ELSE fx.frames,
                           !.current_time = fx.current_time + fx.interval,
                           !.attempted = Append(fx.attempted, fx.current_time),
                           !.outcomes = Append(fx.outcomes, outcome)]
    /\ UNCHANGED <<pipeVars, gen, fb, comb, cor, per, ob, ro, syn, aud>>

ReturnFrames ==
    /\ fx.pc = "loop"
    /\ ~KeepsSampling(fx.current_time, fx.duration)
    /\ fx' = [fx EXCEPT !.pc = "done", !.returned = fx.frames]
    /\ UNCHANGED <<pipeVars, gen, fb, comb, cor, per, ob, ro, syn, aud>>

NextFrames == ProbeFrames \/ SampleFrame \/ ReturnFrames

SpecFrames == InitFrames /\ [][NextFrames]_vars

\* the function runs on once called: every subprocess call of the loop is bounded
\* by its timeout, and the probe is taken to return
SpecFramesFair == SpecFrames /\ WF_vars(NextFrames)

-----------------------------------------------------------------------------
(* Claims about extract_frames_for_ocr *)

FxDone == fx.pc = "done"

\* the sample times 0, interval, 2 * interval, ... below min(duration, 1200 s)
SampleTimes ==
    {k * fx.interval : k \in 0..MaxSamples + 1} \cap {t \in 0..1199 : t < fx.duration}

\* the times of the passes whose outcome was a frame, in order
SuccessfulSamples ==
    LET f[i \in 0..Len(fx.attempted)] ==
            IF i = 0 THEN <<>>
            ELSE IF fx.outcomes[i] = "frame" THEN Append(f[i - 1], fx.attempted[i])
            ELSE f[i - 1]
    IN  f[Len(fx.attempted)]

SamplingInOrder ==
    /\ \A k \in 1..Len(fx.attempted) :
          fx.attempted[k] = (k - 1) * fx.interval /\ fx.attempted[k] \in SampleTimes
    /\ fx.frames = SuccessfulSamples
    /\ FxDone /\ fx.ok =>
          /\ {fx.attempted[k] : k \in 1..Len(fx.attempted)} = SampleTimes
          /\ fx.returned = SuccessfulSamples
    /\ FxDone /\ ~fx.ok => fx.attempted = <<>> /\ fx.returned = <<>>

\* C28: for every pattern of per-sample decode outcomes (success, timeout, error),
\* extract_frames_for_ocr terminates, attempts each sample time 0, interval,
\* 2 * interval, ... below min(duration, 1200 s) exactly once in increasing order, and
\* returns exactly the frames of the successful samples; a failed or timed-out sample
\* contributes nothing and never prevents later samples from being attempted.
C28_SamplesIsolated == []SamplingInOrder /\ <>FxDone

\* C28 witness: of the four samples of a 7 s video the first timed out, the second
\* raised, the third gave a frame and the fourth gave none; the call returned the
\* frame taken at 4 s.
C28_Witness ==
    /\ FxDone
    /\ fx.duration = 7 /\ fx.interval = 2
    /\ fx.outcomes = <<"timeout", "error", "frame", "empty">>
    /\ fx.returned = <<4>>

-----------------------------------------------------------------------------
(* Claims about the order in which _generate_clips accepts anchors *)

\* C29: in _generate_clips the anchor times of the accepted clips are strictly
\* increasing in acceptance order with each consecutive gap at least min_gap (30 s),
\* so any two accepted clips have anchors at least min_gap apart; a ranked candidate
\* whose anchor is earlier than the most recently accepted anchor is never accepted,
\* however far it is from every accepted clip.
C29_AcceptedAnchorsIncrease ==
    GenDone =>
        /\ \A k \in 1..(Len(gen.run.anchors) - 1) :
              gen.run.anchors[k + 1] - gen.run.anchors[k] >= 30
        /\ \A j, k \in 1..Len(gen.run.anchors) :
              j # k => Abs(gen.run.anchors[j] - gen.run.anchors[k]) >= 30
        /\ \A i \in 1..gen.run.examined :
              LET before == AcceptedBefore(i)
              IN  (before # <<>> /\ gen.highlights[i].timestamp < before[Len(before)])
                      => \A a \in 1..Len(gen.run.anchors) :
                             gen.run.anchors[a] # gen.highlights[i].timestamp

\* C29 witness: a candidate 45 s or more before the only accepted anchor was examined
\* with room for another clip, and it was left out.
C29_Witness ==
    /\ GenDone
    /\ gen.max_clips = 2
    /\ Len(gen.run.anchors) = 1
    /\ \E i \in 2..gen.run.examined :
          gen.run.anchors[1] - gen.highlights[i].timestamp >= 45

-----------------------------------------------------------------------------
(* Two concurrent runs of detect_lol_highlights and the temp directory they share *)

Runs == {1, 2}

\* uploaded files: <<directory, file name>>
MediaFiles == {<<"uploads", "a.mp4">>, <<"uploads", "b.mp4">>}

\* os.path.join('temp', f"audio_{os.path.basename(video_path)}.wav")
AudioPath(video_path) == <<"temp", "audio_", video_path[2], ".wav">>

\* what the run returns for an audio track: the clips found in the whole track, the
\* clips found in a track that was read while it was being written, or the clips of
\* _generate_fallback_clips
ClipsOf(video_path, audio) ==
    IF audio = "whole" THEN [kind |-> "analysed", video |-> video_path]
    ELSE [kind |-> "analysed_partial", video |-> video_path]

FallbackOf(video_path) == [kind |-> "periodic", video |-> video_path]

TempPaths == {AudioPath(v) : v \in MediaFiles}

\* aud.temp maps each path of temp/ to "absent", "partial" (ffmpeg is writing the
\* file) or "whole"
InitAudioRuns ==
    /\ IdlePipeline /\ FirstCallsIdle
    /\ per = Idle /\ ob = Idle /\ ro = Idle /\ fx = Idle /\ syn = Idle
    /\ \E v \in [Runs -> MediaFiles] :
          aud = [run |-> [r \in Runs |->
                              [pc |-> "extract", video_path |-> v[r],
                               audio |-> "none", result |-> <<>>]],
                 temp |-> [q \in TempPaths |-> "absent"]]

WriteTemp(p, content) == [aud.temp EXCEPT ![p] = content]

RemoveTemp(p) == [aud.temp EXCEPT ![p] = "absent"]

Exists(p) == aud.temp[p] # "absent"

\* the runs touch nothing but their locals and temp/
OnlyAudioRuns == UNCHANGED <<pipeVars, gen, fb, comb, cor, per, ob, ro, fx, syn>>

\* _extract_audio_ffmpeg: ffmpeg -y opens the output file, truncating what is there
ExtractAudioOpen(r) ==
    /\ aud.run[r].pc = "extract"
    /\ aud' = [aud EXCEPT !.run[r].pc = "writing",
                          !.temp = WriteTemp(AudioPath(aud.run[r].video_path), "partial")]
    /\ OnlyAudioRuns

\* ffmpeg finishes writing the track and subprocess.run returns; a file the other
\* run removed in the meantime stays removed
ExtractAudioFinish(r) ==
    LET p == AudioPath(aud.run[r].video_path) IN
    /\ aud.run[r].pc = "writing"
    /\ aud' = [aud EXCEPT !.run[r].pc = "read",
                          !.temp = IF Exists(p) THEN WriteTemp(p, "whole") ELSE aud.temp]
    /\ OnlyAudioRuns

\* AudioSegment.from_file(audio_path) and the analysis of what was read; a missing
\* file raises, a file still being written is read as far as it goes or raises
ReadAudio(r) ==
    LET p == AudioPath(aud.run[r].video_path) IN
    /\ aud.run[r].pc = "read"
    /\ \/ /\ Exists(p)
          /\ aud' = [aud EXCEPT !.run[r].pc = "exists",
                                !.run[r].audio = aud.temp[p]]
       \/ /\ ~Exists(p) \/ aud.temp[p] = "partial"
          /\ aud' = [aud EXCEPT !.run[r].pc = "done",
                                !.run[r].result = FallbackOf(aud.run[r].video_path)]
    /\ OnlyAudioRuns

\* if os.path.exists(audio_path):
CheckExists(r) ==
    /\ aud.run[r].pc = "exists"
    /\ aud' = [aud EXCEPT !.run[r].pc =
                   IF Exists(AudioPath(aud.run[r].video_path))
                   THEN "remove" ELSE "return"]
    /\ OnlyAudioRuns

\* os.remove(audio_path): raises when the file has gone since the test
RemoveAudio(r) ==
    LET p == AudioPath(aud.run[r].video_path) IN
    /\ aud.run[r].pc = "remove"
    /\ IF Exists(p)
       THEN aud' = [aud EXCEPT !.run[r].pc = "return", !.temp = RemoveTemp(p)]
       ELSE aud' = [aud EXCEPT !.run[r].pc = "done",
                               !.run[r].result = FallbackOf(aud.run[r].video_path)]
    /\ OnlyAudioRuns

ReturnClips(r) ==
    /\ aud.run[r].pc = "return"
    /\ aud' = [aud EXCEPT !.run[r].pc = "done",
                          !.run[r].result =
                              ClipsOf(aud.run[r].video_path, aud.run[r].audio)]
    /\ OnlyAudioRuns

NextAudioRuns ==
    \/ \E r \in Runs : ExtractAudioOpen(r)
    \/ \E r \in Runs : ExtractAudioFinish(r)
    \/ \E r \in Runs : ReadAudio(r)
    \/ \E r \in Runs : CheckExists(r)
    \/ \E r \in Runs : RemoveAudio(r)
    \/ \E r \in Runs : ReturnClips(r)

SpecAudioRuns == InitAudioRuns /\ [][NextAudioRuns]_vars

-----------------------------------------------------------------------------
(* Claims about concurrent analyses *)

\* what a run returns when no other run is active: the clips of the whole track
ResultAlone(video_path) == [kind |-> "analysed", video |-> video_path]

\* C30: when two runs of the audio extractor execute concurrently, on unrelated
\* videos or on the same media file, every interleaving of their extract-audio,
\* read-audio and delete-temp-file steps gives each run the result it gives when run
\* alone.
C30_ConcurrentRunsDoNotInterfere ==
    \A r \in Runs :
        (aud # Idle /\ aud.run[r].pc = "done")
            => aud.run[r].result = ResultAlone(aud.run[r].video_path)

=============================================================================
